---- MODULE Spec2Model ----
(***************************************************************************)
(* The live meeting room coordinator of backend/server.py: the in-memory  *)
(* room table active_rooms, the Socket.IO handlers that mutate it         *)
(* (join-room, leave-room, start-recording, stop-recording), the three    *)
(* signaling relays, the transport's group membership through which       *)
(* every emit is addressed, and the two HTTP routes (POST /api/room/create *)
(* and GET /api/room/<room_id>) with the rooms collection of the store.    *)
(***************************************************************************)
EXTENDS Integers, Sequences, FiniteSets, TLC

(* ---------------------------------------------------------------------- *)
(* Input domains and bounds                                               *)
(* ---------------------------------------------------------------------- *)

\* Python's None: the value of data.get(key) for a missing key.
None == "<None>"

\* Transport connection ids (request.sid).
Sids == {"s1", "s2", "s3"}

\* Client-supplied room ids.  They are taken disjoint from the sids.
RoomIds == {"r1", "r2"}

\* The identity the client on each connection joins with: two users, one
\* of them (Bob, say in two browser tabs) on two connections.
Identity ==
    [s1 |-> [userId |-> "u1", userName |-> "Bob"],
     s2 |-> [userId |-> "u2", userName |-> "Carol"],
     s3 |-> [userId |-> "u1", userName |-> "Bob"]]

UserIds == { Identity[sid].userId : sid \in Sids }

\* A targetId that names no connection and no room.
Nobody == "nobody"

\* targetId of a signaling message: a connection id, a room id (both live in
\* the transport's one addressing namespace) or an id that names nothing.
TargetIds == Sids \cup RoomIds \cup {Nobody}

\* The opaque negotiation blob of a signaling message.
Blobs == {"sdp"}

\* Number of client events dispatched to handlers in one run.
MaxEvents == 4

(* ---------------------------------------------------------------------- *)
(* State                                                                  *)
(* ---------------------------------------------------------------------- *)

VARIABLES
    active_rooms,   \* room table: room_id -> [participants, host, recording, title]
    sio_rooms,      \* transport groups: group name -> set of sids subscribed
    emitted,        \* emissions of the handler that ran last, in order
    last_event,     \* the event that handler was dispatched for
    prev,           \* emissions of the handler before, when it got the same event
    handled,        \* number of client events dispatched so far
    threads,        \* per connection: the handler thread running for it
    invoked,        \* the join-room / leave-room events given to threads
    rooms_db,       \* mongo.db.rooms: the documents in insertion order
    response,       \* the response to the HTTP request served in the last step
    _summarizer,    \* summarize_connector._summarizer: None or an instance
    instances,      \* the MeetingSummarizer objects built so far
    load_calls,     \* number of load_model invocations so far
    calls,          \* per request handler: where its summarize_meeting call is
    received        \* the instances summarize_meeting calls have worked with

\* The state of the summarizer connector.
summarizerVars == <<_summarizer, instances, load_calls, calls, received>>

\* The state of the room coordinator.
roomVars == <<active_rooms, sio_rooms, emitted, last_event, prev, handled,
              threads, invoked, rooms_db, response>>

vars == <<active_rooms, sio_rooms, emitted, last_event, prev, handled,
          threads, invoked, rooms_db, response,
          _summarizer, instances, load_calls, calls, received>>

\* Names of transport groups: one per connection (its own sid), one per room
\* id that was ever entered, and the group None that holds every connection.
GroupNames == Sids \cup RoomIds \cup {None}

\* data.get(key, default) on a message payload (a dict).
Get(data, key, default) ==
    IF key \in DOMAIN data THEN data[key] ELSE default

\* len(active_rooms[room_id]['participants'])
ParticipantCount(rooms, room_id) == Len(rooms[room_id].participants)

\* The connections subscribed to a group name; a name no connection ever
\* entered has no members.
Members(groups, name) ==
    IF name \in DOMAIN groups THEN groups[name] ELSE {}

\* Emit as it would be if a missing room were passed on to the transport
\* as it is: the group None holds every connection.
Emit_Broadcast(groups, sid, event, payload, room, skip_sid) ==
    [event |-> event, payload |-> payload, room |-> room,
     to |-> Members(groups, room) \ {skip_sid}]

\* Emit as it would be if skip_sid were dropped.
Emit_NoSkip(groups, sid, event, payload, room, skip_sid) ==
    LET to == IF room = None THEN sid ELSE room
    IN  [event |-> event, payload |-> payload, room |-> to,
         to |-> Members(groups, to)]

\* flask_socketio.emit(event, payload, room=room, skip_sid=skip_sid) called in
\* the handler of connection sid: without a room the emit addresses the
\* caller's own sid; the recipients are the members of the addressed group
\* minus skip_sid.
Emit(groups, sid, event, payload, room, skip_sid) ==
    LET to == IF room = None THEN sid ELSE room
    IN  [event |-> event, payload |-> payload, room |-> to,
         to |-> Members(groups, to) \ {skip_sid}]

\* flask_socketio.join_room(room_id) for connection sid.
join_room(groups, sid, room_id) ==
    [g \in DOMAIN groups \cup {room_id} |->
        IF g = room_id THEN Members(groups, g) \cup {sid} ELSE groups[g]]

\* leave_room as it would be if the handler never left the group.
leave_room_Noop(groups, sid, room_id) == groups

\* flask_socketio.leave_room(room_id) for connection sid.
leave_room(groups, sid, room_id) ==
    [g \in DOMAIN groups |->
        IF g = room_id THEN groups[g] \ {sid} ELSE groups[g]]

\* active_rooms[room_id] = record
SetRoom(rooms, room_id, record) ==
    [k \in DOMAIN rooms \cup {room_id} |->
        IF k = room_id THEN record ELSE rooms[k]]

\* FreshRoom as it would be if the joiner were not made host.
FreshRoom_AnonymousHost(user_name) ==
    [participants |-> << >>, host |-> "Anonymous",
     recording |-> FALSE, title |-> "Meeting"]

\* The dict a join to an unknown room id installs.
FreshRoom(user_name) ==
    [participants |-> << >>, host |-> user_name,
     recording |-> FALSE, title |-> "Meeting"]

\* The participant dict of a join (joinedAt is a wall-clock stamp no handler
\* reads; it is left out).
Participant(user_id, user_name) ==
    [userId |-> user_id, userName |-> user_name]

\* No handler ran in the last step (nothing happened yet, or the transport
\* opened or closed a connection, for which no handler is registered).
NoEvent == [name |-> "none", sid |-> None, data |-> << >>]

NoPrev == [same |-> FALSE, emitted |-> << >>]

\* A connection for which no handler thread is running.
Idle == [pc |-> "idle"]

\* No HTTP request was served in the last step.
NoResponse == [status |-> 0]

\* The request handlers that can be inside summarize_meeting at once.
Callers == {"c1", "c2"}

\* The objects MeetingSummarizer() can return, told apart by identity.
Objects == {"m1", "m2", "m3", "m4"}

\* A request handler that is not inside summarize_meeting and has called it
\* n times: summarizer is the local variable of summarize_meeting, self the
\* object whose load_model the handler is inside.
NoCall == [pc |-> "idle", summarizer |-> None, self |-> None, n |-> 0]

\* The connector module right after import: _summarizer = None, nothing
\* built or loaded.
SummarizerInit ==
    /\ _summarizer = None
    /\ instances = << >>
    /\ load_calls = 0
    /\ calls = [c \in Callers |-> NoCall]
    /\ received = {}

Init ==
    /\ active_rooms = << >>
    /\ sio_rooms = [g \in GroupNames |-> {}]
    /\ emitted = << >>
    /\ last_event = NoEvent
    /\ prev = NoPrev
    /\ handled = 0
    /\ threads = [sid \in Sids |-> Idle]
    /\ invoked = << >>
    /\ rooms_db = << >>
    /\ response = NoResponse
    /\ SummarizerInit

\* The connections the transport currently holds.
Connected == sio_rooms[None]

(* ---------------------------------------------------------------------- *)
(* Transport                                                              *)
(* ---------------------------------------------------------------------- *)

\* A client connects: the transport enters the connection into the group of
\* all connections and into the group named by its own sid.  No handler is
\* registered for the event.
Connect(sid) ==
    /\ sid \notin Connected
    /\ sio_rooms' = join_room(join_room(sio_rooms, sid, None), sid, sid)
    /\ emitted' = << >>
    /\ last_event' = NoEvent
    /\ prev' = NoPrev
    /\ UNCHANGED <<active_rooms, handled>>

\* The transport closes a connection (a repeated notification finds it in no
\* group): it leaves every group.  The server registers no 'disconnect'
\* handler, so nothing else runs.
Disconnect(sid) ==
    /\ sio_rooms' = [g \in DOMAIN sio_rooms |-> sio_rooms[g] \ {sid}]
    /\ emitted' = << >>
    /\ last_event' = NoEvent
    /\ prev' = NoPrev
    /\ UNCHANGED <<active_rooms, handled>>

(* ---------------------------------------------------------------------- *)
(* Socket.IO event handlers                                               *)
(* ---------------------------------------------------------------------- *)

\* What str(uuid.uuid4()) can return for a join that carries no userId.
Uuids == {"uuid-1"}

\* Lines 296-302 of handle_join_room: install a fresh room under an id the
\* table does not hold.
InstallIfAbsent(rooms, room_id, user_name) ==
    IF room_id \notin DOMAIN rooms
    THEN SetRoom(rooms, room_id, FreshRoom(user_name))
    ELSE rooms

\* active_rooms[room_id]['participants'].append(participant)
AppendParticipant(rooms, room_id, participant) ==
    [rooms EXCEPT ![room_id].participants = Append(@, participant)]

\* WithoutUser as it would be if it removed the first entry of the userId
\* only, as list.remove does.
WithoutUser_FirstOnly(participants, user_id) ==
    LET hits == { i \in 1..Len(participants) :
                    participants[i].userId = user_id }
        first == CHOOSE i \in hits : \A j \in hits : i <= j
    IN  IF hits = {} THEN participants
        ELSE SubSeq(participants, 1, first - 1) \o
             SubSeq(participants, first + 1, Len(participants))

\* The list comprehension of handle_leave_room.
WithoutUser(participants, user_id) ==
    SelectSeq(participants, LAMBDA p : p.userId # user_id)

\* SetParticipants as it would be if a room whose list becomes empty
\* stopped recording.
SetParticipants_StopsWhenEmpty(rooms, room_id, participants) ==
    [rooms EXCEPT ![room_id].participants = participants,
                  ![room_id].recording = IF participants = << >> THEN FALSE
                                         ELSE @]

\* active_rooms[room_id]['participants'] = participants
SetParticipants(rooms, room_id, participants) ==
    [rooms EXCEPT ![room_id].participants = participants]

\* The two emits of handle_join_room, in order.
JoinEmits(groups, rooms, sid, room_id, user_id, user_name) ==
    << Emit(groups, sid, "user-joined",
            [userId |-> user_id, userName |-> user_name,
             participantCount |-> ParticipantCount(rooms, room_id)],
            room_id, sid),
       Emit(groups, sid, "room-users",
            [participants |-> rooms[room_id].participants],
            None, None) >>

\* The emit of handle_leave_room.
LeaveEmits(groups, rooms, sid, room_id, user_id) ==
    << Emit(groups, sid, "user-left",
            [userId |-> user_id,
             participantCount |-> ParticipantCount(rooms, room_id)],
            room_id, None) >>

\* @socketio.on('join-room')
handle_join_room(sid, data) ==
    \E generated \in Uuids :
    LET room_id   == Get(data, "roomId", None)
        user_name == Get(data, "userName", "Anonymous")
        user_id   == Get(data, "userId", generated)
        groups    == join_room(sio_rooms, sid, room_id)
        rooms     == AppendParticipant(
                         InstallIfAbsent(active_rooms, room_id, user_name),
                         room_id, Participant(user_id, user_name))
    IN  /\ sid \in Connected
        /\ sio_rooms' = groups
        /\ active_rooms' = rooms
        /\ emitted' = JoinEmits(groups, rooms, sid, room_id, user_id, user_name)
        /\ last_event' = [name |-> "join-room", sid |-> sid, data |-> data]

\* handle_leave_room as it would be if the room were removed from the table
\* when its last participant leaves.
handle_leave_room_TearsDown(sid, data) ==
    LET room_id == Get(data, "roomId", None)
        user_id == Get(data, "userId", None)
        groups  == leave_room(sio_rooms, sid, room_id)
        rooms   == SetParticipants(active_rooms, room_id,
                       WithoutUser(active_rooms[room_id].participants, user_id))
    IN  /\ sid \in Connected
        /\ sio_rooms' = groups
        /\ IF room_id \in DOMAIN active_rooms
           THEN /\ active_rooms' =
                     IF rooms[room_id].participants = << >>
                     THEN [k \in DOMAIN rooms \ {room_id} |-> rooms[k]]
                     ELSE rooms
                /\ emitted' = LeaveEmits(groups, rooms, sid, room_id, user_id)
           ELSE /\ UNCHANGED active_rooms
                /\ emitted' = << >>
        /\ last_event' = [name |-> "leave-room", sid |-> sid, data |-> data]

\* @socketio.on('leave-room')
handle_leave_room(sid, data) ==
    LET room_id == Get(data, "roomId", None)
        user_id == Get(data, "userId", None)
        groups  == leave_room(sio_rooms, sid, room_id)
        rooms   == SetParticipants(active_rooms, room_id,
                       WithoutUser(active_rooms[room_id].participants, user_id))
    IN  /\ sid \in Connected
        /\ sio_rooms' = groups
        /\ IF room_id \in DOMAIN active_rooms
           THEN /\ active_rooms' = rooms
                /\ emitted' = LeaveEmits(groups, rooms, sid, room_id, user_id)
           ELSE /\ UNCHANGED active_rooms
                /\ emitted' = << >>
        /\ last_event' = [name |-> "leave-room", sid |-> sid, data |-> data]

\* Relay as it would be if a message to a target the room table does not
\* hold entered the target into it.
Relay_InstallsTarget(sid, event, field, data) ==
    LET target_id == Get(data, "targetId", None)
        blob      == Get(data, field, None)
        sender_id == Get(data, "senderId", None)
    IN  /\ sid \in Connected
        /\ emitted' =
             << Emit(sio_rooms, sid, event,
                     (field :> blob) @@ [senderId |-> sender_id],
                     target_id, None) >>
        /\ last_event' = [name |-> event, sid |-> sid, data |-> data]
        /\ active_rooms' = InstallIfAbsent(active_rooms, target_id, "Anonymous")
        /\ UNCHANGED sio_rooms

\* Relay as it would be if the server tagged the message with the
\* connection it came in on rather than with the senderId it carries.
Relay_SenderSid(sid, event, field, data) ==
    LET target_id == Get(data, "targetId", None)
        blob      == Get(data, field, None)
    IN  /\ sid \in Connected
        /\ emitted' =
             << Emit(sio_rooms, sid, event,
                     (field :> blob) @@ [senderId |-> sid],
                     target_id, None) >>
        /\ last_event' = [name |-> event, sid |-> sid, data |-> data]
        /\ UNCHANGED <<active_rooms, sio_rooms>>

\* The body the three signaling handlers share: forward the blob (under the
\* key it came in with: offer, answer or candidate) and the senderId to the
\* group named by targetId.
Relay(sid, event, field, data) ==
    LET target_id == Get(data, "targetId", None)
        blob      == Get(data, field, None)
        sender_id == Get(data, "senderId", None)
    IN  /\ sid \in Connected
        /\ emitted' =
             << Emit(sio_rooms, sid, event,
                     (field :> blob) @@ [senderId |-> sender_id],
                     target_id, None) >>
        /\ last_event' = [name |-> event, sid |-> sid, data |-> data]
        /\ UNCHANGED <<active_rooms, sio_rooms>>

\* @socketio.on('webrtc-offer')
handle_webrtc_offer(sid, data) == Relay(sid, "webrtc-offer", "offer", data)

\* @socketio.on('webrtc-answer')
handle_webrtc_answer(sid, data) == Relay(sid, "webrtc-answer", "answer", data)

\* @socketio.on('webrtc-ice-candidate')
handle_ice_candidate(sid, data) ==
    Relay(sid, "webrtc-ice-candidate", "candidate", data)

\* SetRecording as it would be if a recording event for a room id the table
\* does not hold created the room.
SetRecording_AutoCreates(sid, name, event, value, data) ==
    LET room_id == Get(data, "roomId", None)
        rooms   == InstallIfAbsent(active_rooms, room_id, "Anonymous")
    IN  /\ sid \in Connected
        /\ active_rooms' = [rooms EXCEPT ![room_id].recording = value]
        /\ emitted' = << Emit(sio_rooms, sid, event, << >>, room_id, None) >>
        /\ last_event' = [name |-> name, sid |-> sid, data |-> data]
        /\ UNCHANGED sio_rooms

\* SetRecording as it would be if it notified the room only when the flag
\* changes.
SetRecording_OnlyOnChange(sid, name, event, value, data) ==
    LET room_id == Get(data, "roomId", None)
    IN  /\ sid \in Connected
        /\ IF room_id \in DOMAIN active_rooms
           THEN /\ active_rooms' =
                     [active_rooms EXCEPT ![room_id].recording = value]
                /\ emitted' =
                     IF active_rooms[room_id].recording # value
                     THEN << Emit(sio_rooms, sid, event, << >>, room_id, None) >>
                     ELSE << >>
           ELSE /\ UNCHANGED active_rooms
                /\ emitted' = << >>
        /\ last_event' = [name |-> name, sid |-> sid, data |-> data]
        /\ UNCHANGED sio_rooms

\* The body the two recording handlers share.
SetRecording(sid, name, event, value, data) ==
    LET room_id == Get(data, "roomId", None)
    IN  /\ sid \in Connected
        /\ IF room_id \in DOMAIN active_rooms
           THEN /\ active_rooms' =
                     [active_rooms EXCEPT ![room_id].recording = value]
                /\ emitted' =
                     << Emit(sio_rooms, sid, event, << >>, room_id, None) >>
           ELSE /\ UNCHANGED active_rooms
                /\ emitted' = << >>
        /\ last_event' = [name |-> name, sid |-> sid, data |-> data]
        /\ UNCHANGED sio_rooms

\* @socketio.on('start-recording')
handle_start_recording(sid, data) ==
    SetRecording(sid, "start-recording", "recording-started", TRUE, data)

\* @socketio.on('stop-recording')
handle_stop_recording(sid, data) ==
    SetRecording(sid, "stop-recording", "recording-stopped", FALSE, data)

(* ---------------------------------------------------------------------- *)
(* HTTP routes                                                            *)
(* ---------------------------------------------------------------------- *)

\* room_doc of create_room (createdAt is a wall-clock stamp nothing reads;
\* it is left out).
RoomDoc(room_id, room_title, host_name) ==
    [roomId |-> room_id, title |-> room_title, hostName |-> host_name,
     status |-> "active", participants |-> << >>]

\* LiveRoom as it would be if a created room started out recording.
LiveRoom_Recording(host_name, room_title) ==
    [participants |-> << >>, host |-> host_name,
     recording |-> TRUE, title |-> room_title]

\* The dict create_room puts into active_rooms.
LiveRoom(host_name, room_title) ==
    [participants |-> << >>, host |-> host_name,
     recording |-> FALSE, title |-> room_title]

\* mongo.db.rooms.insert_one(doc)
insert_one(collection, doc) == Append(collection, doc)

\* The positions of the documents that match {"roomId": room_id}.
Matching(collection, room_id) ==
    { i \in 1..Len(collection) : collection[i].roomId = room_id }

\* mongo.db.rooms.find_one({"roomId": room_id}): the first matching document
\* in insertion order, None when there is none.
find_one(collection, room_id) ==
    LET found == Matching(collection, room_id)
    IN  IF found = {} THEN None
        ELSE collection[CHOOSE i \in found : \A j \in found : i <= j]

\* LiveCount as it would be if the count were taken from the stored
\* document, whose participant list no handler ever writes.
LiveCount_Stored(rooms, room_id) == 0

\* The participantCount get_room adds to the stored document.
LiveCount(rooms, room_id) ==
    IF room_id \in DOMAIN rooms THEN Len(rooms[room_id].participants) ELSE 0

\* create_room as it would be if the room were entered into active_rooms
\* before the document is written.
create_room_TableFirst(data, room_id, ok) ==
    LET host_name  == Get(data, "hostName", "Anonymous")
        room_title == Get(data, "title", "Untitled Meeting")
        room_doc   == RoomDoc(room_id, room_title, host_name)
    IN  /\ active_rooms' =
             SetRoom(active_rooms, room_id, LiveRoom(host_name, room_title))
        /\ IF ok
           THEN /\ rooms_db' = insert_one(rooms_db, room_doc)
                /\ response' = [status |-> 201, roomId |-> room_id,
                                room |-> room_doc]
           ELSE /\ UNCHANGED rooms_db
                /\ response' = [status |-> 500]
        /\ last_event' = [name |-> "create-room", sid |-> None, data |-> data]

\* POST /api/room/create with JSON body data.  room_id is what
\* str(uuid.uuid4())[:8] returns; ok tells whether insert_one succeeds (when
\* it raises, the except branch answers 500 and the assignment to
\* active_rooms, which comes after it, is never reached).
create_room(data, room_id, ok) ==
    LET host_name  == Get(data, "hostName", "Anonymous")
        room_title == Get(data, "title", "Untitled Meeting")
        room_doc   == RoomDoc(room_id, room_title, host_name)
    IN  /\ IF ok
           THEN /\ rooms_db' = insert_one(rooms_db, room_doc)
                /\ active_rooms' =
                     SetRoom(active_rooms, room_id,
                             LiveRoom(host_name, room_title))
                /\ response' = [status |-> 201, roomId |-> room_id,
                                room |-> room_doc]
           ELSE /\ UNCHANGED <<rooms_db, active_rooms>>
                /\ response' = [status |-> 500]
        /\ last_event' = [name |-> "create-room", sid |-> None, data |-> data]

\* GET /api/room/<room_id>.  ok tells whether find_one succeeds.
get_room(room_id, ok) ==
    /\ response' =
         IF ~ok THEN [status |-> 500]
         ELSE IF Matching(rooms_db, room_id) = {} THEN [status |-> 404]
         ELSE [status |-> 200,
               room |-> find_one(rooms_db, room_id) @@
                        [participantCount |-> LiveCount(active_rooms, room_id)]]
    /\ last_event' = [name |-> "get-room", sid |-> None,
                      data |-> [roomId |-> room_id]]
    /\ UNCHANGED <<active_rooms, rooms_db>>

(* ---------------------------------------------------------------------- *)
(* Messages the clients send                                              *)
(* ---------------------------------------------------------------------- *)

JoinData(sid) ==
    { [roomId |-> r, userName |-> Identity[sid].userName,
       userId |-> Identity[sid].userId] : r \in RoomIds }

LeaveData == { [roomId |-> r, userId |-> u] : r \in RoomIds, u \in UserIds }

\* A client tags its signaling messages with its own connection id.
OfferData(sid) ==
    { [targetId |-> t, offer |-> b, senderId |-> sid] :
        t \in TargetIds, b \in Blobs }

AnswerData(sid) ==
    { [targetId |-> t, answer |-> b, senderId |-> sid] :
        t \in TargetIds, b \in Blobs }

CandidateData(sid) ==
    { [targetId |-> t, candidate |-> b, senderId |-> sid] :
        t \in TargetIds, b \in Blobs }

RecordingData == { [roomId |-> r] : r \in RoomIds }

\* The transport opens or closes a connection; no handler thread is involved.
Transport(step) ==
    /\ step
    /\ response' = NoResponse
    /\ UNCHANGED <<threads, invoked, rooms_db>>
    /\ UNCHANGED summarizerVars

\* Handle as it would be if a handler that adds a room to the table also
\* wrote a document for it.
Handle_Persisting(handler) ==
    /\ handled < MaxEvents
    /\ handled' = handled + 1
    /\ handler
    /\ prev' = IF /\ last_event'.name = last_event.name
                  /\ last_event'.data = last_event.data
               THEN [same |-> TRUE, emitted |-> emitted]
               ELSE NoPrev
    /\ response' = NoResponse
    /\ rooms_db' =
         IF DOMAIN active_rooms' = DOMAIN active_rooms THEN rooms_db
         ELSE insert_one(rooms_db,
                  RoomDoc(CHOOSE r \in DOMAIN active_rooms' :
                              r \notin DOMAIN active_rooms,
                          "Meeting", "Anonymous"))
    /\ UNCHANGED <<threads, invoked>>
    /\ UNCHANGED summarizerVars

\* A client event is dispatched and its handler runs to completion; the
\* record of the handler before it is kept when that one got the same event
\* with the same payload.
Handle(handler) ==
    /\ handled < MaxEvents
    /\ handled' = handled + 1
    /\ handler
    /\ prev' = IF /\ last_event'.name = last_event.name
                  /\ last_event'.data = last_event.data
               THEN [same |-> TRUE, emitted |-> emitted]
               ELSE NoPrev
    /\ response' = NoResponse
    /\ UNCHANGED <<threads, invoked, rooms_db>>
    /\ UNCHANGED summarizerVars

Next ==
    \/ \E sid \in Sids : Transport(Connect(sid))
    \/ \E sid \in Sids : Transport(Disconnect(sid))
    \/ \E sid \in Sids : \E data \in JoinData(sid) : Handle(handle_join_room(sid, data))
    \/ \E sid \in Sids, data \in LeaveData : Handle(handle_leave_room(sid, data))
    \/ \E sid \in Sids : \E data \in OfferData(sid) :
           Handle(handle_webrtc_offer(sid, data))
    \/ \E sid \in Sids : \E data \in AnswerData(sid) :
           Handle(handle_webrtc_answer(sid, data))
    \/ \E sid \in Sids : \E data \in CandidateData(sid) :
           Handle(handle_ice_candidate(sid, data))
    \/ \E sid \in Sids, data \in RecordingData :
           Handle(handle_start_recording(sid, data))
    \/ \E sid \in Sids, data \in RecordingData :
           Handle(handle_stop_recording(sid, data))

Spec == Init /\ [][Next]_vars

\* Runs of join-room and leave-room events only, over connections that stay
\* open.
MembershipNext ==
    \/ \E sid \in Sids : Transport(Connect(sid))
    \/ \E sid \in Sids : \E data \in JoinData(sid) :
           Handle(handle_join_room(sid, data))
    \/ \E sid \in Sids, data \in LeaveData :
           Handle(handle_leave_room(sid, data))

MembershipSpec == Init /\ [][MembershipNext]_vars

\* Negotiation blobs, told apart so that a swapped or altered one shows.
SignalBlobs == {"sdp-a", "sdp-b"}

\* The connection ids signaling messages name as target and as sender.
SignalPeers == {"s1", "s2"}

\* Signaling messages of the documented shape {targetId, senderId, blob},
\* addressed to a connection; senderId is whatever the client wrote.
SignalData(field) ==
    { (field :> b) @@ [targetId |-> t, senderId |-> u] :
        b \in SignalBlobs, t \in SignalPeers, u \in SignalPeers }

\* The signaling relays among connections that joined rooms.
RelayNext ==
    \/ \E sid \in Sids : Transport(Connect(sid))
    \/ \E sid \in Sids : \E data \in JoinData(sid) :
           Handle(handle_join_room(sid, data))
    \/ \E sid \in Sids, data \in SignalData("offer") :
           Handle(handle_webrtc_offer(sid, data))
    \/ \E sid \in Sids, data \in SignalData("answer") :
           Handle(handle_webrtc_answer(sid, data))
    \/ \E sid \in Sids, data \in SignalData("candidate") :
           Handle(handle_ice_candidate(sid, data))

RelaySpec == Init /\ [][RelayNext]_vars

\* join-room messages, among them one that carries no roomId.
AnyJoinData(sid) ==
    JoinData(sid) \cup
    { [userName |-> Identity[sid].userName, userId |-> Identity[sid].userId] }

\* Joins and leaves where a client may leave the roomId out of a join.
MissingFieldNext ==
    \/ \E sid \in Sids : Transport(Connect(sid))
    \/ \E sid \in Sids : \E data \in AnyJoinData(sid) :
           Handle(handle_join_room(sid, data))
    \/ \E sid \in Sids, data \in LeaveData :
           Handle(handle_leave_room(sid, data))

MissingFieldSpec == Init /\ [][MissingFieldNext]_vars

\* Signaling messages, among them ones that carry no targetId.
AnySignalData(field) ==
    SignalData(field) \cup
    { (field :> b) @@ [senderId |-> u] : b \in SignalBlobs, u \in SignalPeers }

\* The signaling relays where a client may leave the targetId out.
UntargetedNext ==
    \/ \E sid \in Sids : Transport(Connect(sid))
    \/ \E sid \in Sids, data \in AnySignalData("offer") :
           Handle(handle_webrtc_offer(sid, data))
    \/ \E sid \in Sids, data \in AnySignalData("answer") :
           Handle(handle_webrtc_answer(sid, data))
    \/ \E sid \in Sids, data \in AnySignalData("candidate") :
           Handle(handle_ice_candidate(sid, data))

UntargetedSpec == Init /\ [][UntargetedNext]_vars

\* roomId is a string the client chooses: besides the ids in RoomIds it can
\* be the connection id of another client, which peers learn from the
\* senderId of signaling messages.
ChosenRoomIds == RoomIds \cup {"s2"}

\* join-room messages over the client-chosen room ids.
ChosenJoinData(sid) ==
    { [roomId |-> r, userName |-> Identity[sid].userName,
       userId |-> Identity[sid].userId] : r \in ChosenRoomIds }

\* Membership and recording events where a room id may equal a connection id.
IsolationNext ==
    \/ \E sid \in Sids : Transport(Connect(sid))
    \/ \E sid \in Sids : \E data \in ChosenJoinData(sid) :
           Handle(handle_join_room(sid, data))
    \/ \E sid \in Sids, data \in LeaveData :
           Handle(handle_leave_room(sid, data))
    \/ \E sid \in Sids, data \in RecordingData :
           Handle(handle_start_recording(sid, data))
    \/ \E sid \in Sids, data \in RecordingData :
           Handle(handle_stop_recording(sid, data))

IsolationSpec == Init /\ [][IsolationNext]_vars

\* Bodies of create-room requests: hostName and title are both optional.
CreateData ==
    { [hostName |-> "Alice", title |-> "Standup"],
      [hostName |-> "Alice"],
      [title |-> "Standup"] }

\* An HTTP request is served: its handler runs to completion, emits nothing
\* and touches no transport group.
Request(handler) ==
    /\ handled < MaxEvents
    /\ handled' = handled + 1
    /\ handler
    /\ emitted' = << >>
    /\ prev' = NoPrev
    /\ UNCHANGED <<sio_rooms, threads, invoked>>
    /\ UNCHANGED summarizerVars

\* What the rooms collection can hold when the process starts: nothing, or
\* a document an earlier run of the server wrote.
StoredBefore == { << >>, << RoomDoc("r2", "Standup", "Alice") >> }

ApiInit ==
    /\ active_rooms = << >>
    /\ sio_rooms = [g \in GroupNames |-> {}]
    /\ emitted = << >>
    /\ last_event = NoEvent
    /\ prev = NoPrev
    /\ handled = 0
    /\ threads = [sid \in Sids |-> Idle]
    /\ invoked = << >>
    /\ rooms_db \in StoredBefore
    /\ response = NoResponse
    /\ SummarizerInit

\* The HTTP routes next to the join-room and leave-room handlers.
ApiNext ==
    \/ \E sid \in Sids : Transport(Connect(sid))
    \/ \E sid \in Sids : \E data \in JoinData(sid) :
           Handle(handle_join_room(sid, data))
    \/ \E sid \in Sids, data \in LeaveData :
           Handle(handle_leave_room(sid, data))
    \/ \E data \in CreateData, room_id \in RoomIds, ok \in BOOLEAN :
           Request(create_room(data, room_id, ok))
    \/ \E room_id \in RoomIds, ok \in BOOLEAN :
           Request(get_room(room_id, ok))

ApiSpec == ApiInit /\ [][ApiNext]_vars

\* Number of client events and HTTP requests in one run over the store.
MaxStoreEvents == 3

\* A step taken while the run over the store has events left.
Within(step) ==
    /\ handled < MaxStoreEvents
    /\ step

\* Every Socket.IO handler and both HTTP routes over one store, started
\* with or without a document written by an earlier run.
StoreNext ==
    \/ \E sid \in Sids : Transport(Connect(sid))
    \/ \E sid \in Sids : \E data \in JoinData(sid) :
           Within(Handle(handle_join_room(sid, data)))
    \/ \E sid \in Sids, data \in LeaveData :
           Within(Handle(handle_leave_room(sid, data)))
    \/ \E sid \in Sids : \E data \in OfferData(sid) :
           Within(Handle(handle_webrtc_offer(sid, data)))
    \/ \E sid \in Sids : \E data \in AnswerData(sid) :
           Within(Handle(handle_webrtc_answer(sid, data)))
    \/ \E sid \in Sids : \E data \in CandidateData(sid) :
           Within(Handle(handle_ice_candidate(sid, data)))
    \/ \E sid \in Sids, data \in RecordingData :
           Within(Handle(handle_start_recording(sid, data)))
    \/ \E sid \in Sids, data \in RecordingData :
           Within(Handle(handle_stop_recording(sid, data)))
    \/ \E data \in CreateData, room_id \in RoomIds, ok \in BOOLEAN :
           Within(Request(create_room(data, room_id, ok)))
    \/ \E room_id \in RoomIds, ok \in BOOLEAN :
           Within(Request(get_room(room_id, ok)))

StoreSpec == ApiInit /\ [][StoreNext]_vars

(* ---------------------------------------------------------------------- *)
(* Handlers as concurrent threads                                         *)
(* ---------------------------------------------------------------------- *)

\* The server dispatches every client event to its handler on a thread of its
\* own, and the handlers take no lock: a join-room or leave-room handler can
\* be preempted between any two of its statements.  Each is cut below at the
\* statements that read or write active_rooms.

\* Number of join-room / leave-room events given to threads in one run.
MaxOps == 3

\* Everything a thread step leaves alone besides the tables and its own state.
ThreadFrame ==
    /\ UNCHANGED <<last_event, prev, handled, rooms_db, response>>
    /\ UNCHANGED summarizerVars

SetThread(sid, state) == threads' = [threads EXCEPT ![sid] = state]

\* handle_join_room up to the test "room_id not in active_rooms".
JoinBegin(sid, data) ==
    \E generated \in Uuids :
    LET room_id   == Get(data, "roomId", None)
        user_name == Get(data, "userName", "Anonymous")
        user_id   == Get(data, "userId", generated)
    IN  /\ sid \in Connected
        /\ threads[sid] = Idle
        /\ Len(invoked) < MaxOps
        /\ invoked' = Append(invoked,
               [name |-> "join-room", room_id |-> room_id,
                user_id |-> user_id, user_name |-> user_name])
        /\ sio_rooms' = join_room(sio_rooms, sid, room_id)
        /\ SetThread(sid,
               [pc |-> IF room_id \notin DOMAIN active_rooms
                       THEN "join_install" ELSE "join_append",
                room_id |-> room_id, user_id |-> user_id,
                user_name |-> user_name])
        /\ UNCHANGED <<active_rooms, emitted>>
        /\ ThreadFrame

\* active_rooms[room_id] = {...}: the room record is installed, whatever the
\* table holds under the id by now.
JoinInstall(sid) ==
    LET t == threads[sid]
    IN  /\ t.pc = "join_install"
        /\ active_rooms' = SetRoom(active_rooms, t.room_id, FreshRoom(t.user_name))
        /\ SetThread(sid, [t EXCEPT !.pc = "join_append"])
        /\ UNCHANGED <<sio_rooms, emitted, invoked>>
        /\ ThreadFrame

\* active_rooms[room_id]['participants'].append(participant)
JoinAppend(sid) ==
    LET t == threads[sid]
    IN  /\ t.pc = "join_append"
        /\ active_rooms' = AppendParticipant(active_rooms, t.room_id,
                               Participant(t.user_id, t.user_name))
        /\ SetThread(sid, [t EXCEPT !.pc = "join_emit"])
        /\ UNCHANGED <<sio_rooms, emitted, invoked>>
        /\ ThreadFrame

\* The two emits of handle_join_room; the handler returns.
JoinEmit(sid) ==
    LET t == threads[sid]
    IN  /\ t.pc = "join_emit"
        /\ emitted' = JoinEmits(sio_rooms, active_rooms, sid,
                                t.room_id, t.user_id, t.user_name)
        /\ SetThread(sid, Idle)
        /\ UNCHANGED <<active_rooms, sio_rooms, invoked>>
        /\ ThreadFrame

\* handle_leave_room up to the test "room_id in active_rooms"; the handler
\* returns when the test fails.
LeaveBegin(sid, data) ==
    LET room_id == Get(data, "roomId", None)
        user_id == Get(data, "userId", None)
    IN  /\ sid \in Connected
        /\ threads[sid] = Idle
        /\ Len(invoked) < MaxOps
        /\ invoked' = Append(invoked,
               [name |-> "leave-room", room_id |-> room_id, user_id |-> user_id])
        /\ sio_rooms' = leave_room(sio_rooms, sid, room_id)
        /\ SetThread(sid,
               IF room_id \in DOMAIN active_rooms
               THEN [pc |-> "leave_filter", room_id |-> room_id,
                     user_id |-> user_id]
               ELSE Idle)
        /\ UNCHANGED <<active_rooms, emitted>>
        /\ ThreadFrame

\* The right-hand side of the assignment: the list comprehension reads the
\* participant list and builds the filtered one.
LeaveFilter(sid) ==
    LET t == threads[sid]
    IN  /\ t.pc = "leave_filter"
        /\ SetThread(sid,
               [pc |-> "leave_assign", room_id |-> t.room_id,
                user_id |-> t.user_id,
                filtered |-> WithoutUser(active_rooms[t.room_id].participants,
                                         t.user_id)])
        /\ UNCHANGED <<active_rooms, sio_rooms, emitted, invoked>>
        /\ ThreadFrame

\* active_rooms[room_id]['participants'] = <the filtered list>
LeaveAssign(sid) ==
    LET t == threads[sid]
    IN  /\ t.pc = "leave_assign"
        /\ active_rooms' = SetParticipants(active_rooms, t.room_id, t.filtered)
        /\ SetThread(sid, [pc |-> "leave_emit", room_id |-> t.room_id,
                           user_id |-> t.user_id])
        /\ UNCHANGED <<sio_rooms, emitted, invoked>>
        /\ ThreadFrame

\* The emit of handle_leave_room; the handler returns.
LeaveEmit(sid) ==
    LET t == threads[sid]
    IN  /\ t.pc = "leave_emit"
        /\ emitted' = LeaveEmits(sio_rooms, active_rooms, sid,
                                 t.room_id, t.user_id)
        /\ SetThread(sid, Idle)
        /\ UNCHANGED <<active_rooms, sio_rooms, invoked>>
        /\ ThreadFrame

ThreadNext ==
    \/ \E sid \in Sids : Transport(Connect(sid))
    \/ \E sid \in Sids : \E data \in JoinData(sid) : JoinBegin(sid, data)
    \/ \E sid \in Sids : JoinInstall(sid)
    \/ \E sid \in Sids : JoinAppend(sid)
    \/ \E sid \in Sids : JoinEmit(sid)
    \/ \E sid \in Sids, data \in LeaveData : LeaveBegin(sid, data)
    \/ \E sid \in Sids : LeaveFilter(sid)
    \/ \E sid \in Sids : LeaveAssign(sid)
    \/ \E sid \in Sids : LeaveEmit(sid)

ThreadSpec == Init /\ [][ThreadNext]_vars

\* What one join-room or leave-room handler does to the room table when it
\* runs alone, start to end.
ApplyAlone(rooms, op) ==
    IF op.name = "join-room"
    THEN AppendParticipant(InstallIfAbsent(rooms, op.room_id, op.user_name),
                           op.room_id, Participant(op.user_id, op.user_name))
    ELSE IF op.room_id \in DOMAIN rooms
         THEN SetParticipants(rooms, op.room_id,
                  WithoutUser(rooms[op.room_id].participants, op.user_id))
         ELSE rooms

\* The room table after the events ops[order[1]], ..., ops[order[n]] were
\* handled one after the other, starting from the empty table.
RECURSIVE Serial(_, _, _)
Serial(ops, order, n) ==
    IF n = 0 THEN << >>
    ELSE ApplyAlone(Serial(ops, order, n - 1), ops[order[n]])

(* ---------------------------------------------------------------------- *)
(* The summarizer connector                                               *)
(* ---------------------------------------------------------------------- *)

\* upload_meeting calls summarize_connector.summarize_meeting from its
\* request handler; the server runs request handlers on threads of their own
\* and get_summarizer takes no lock, so a handler can be preempted between
\* any two of the statements below.

\* Number of summarize_meeting calls one request handler thread makes.
MaxCalls == 2

SetCall(c, state) ==
    /\ calls' = [calls EXCEPT ![c] = state]
    /\ UNCHANGED roomVars

\* summarize_meeting is entered and reaches "summarizer = get_summarizer()".
CallBegin(c) ==
    /\ calls[c].pc = "idle"
    /\ calls[c].n < MaxCalls
    /\ SetCall(c, [calls[c] EXCEPT !.pc = "test", !.n = @ + 1,
                                   !.summarizer = None, !.self = None])
    /\ UNCHANGED <<_summarizer, instances, load_calls, received>>

\* get_summarizer: "if _summarizer is None:"
GetTest(c) ==
    /\ calls[c].pc = "test"
    /\ SetCall(c, [calls[c] EXCEPT !.pc = IF _summarizer = None
                                          THEN "construct" ELSE "return"])
    /\ UNCHANGED <<_summarizer, instances, load_calls, received>>

\* get_summarizer: "_summarizer = MeetingSummarizer()"; __init__ leaves
\* self.model = None.
GetConstruct(c) ==
    /\ calls[c].pc = "construct"
    /\ Objects \ DOMAIN instances # {}
    /\ LET new == CHOOSE o \in Objects : o \notin DOMAIN instances
       IN  /\ instances' = [o \in DOMAIN instances \cup {new} |->
                               IF o = new THEN [loaded |-> FALSE]
                               ELSE instances[o]]
           /\ _summarizer' = new
    /\ SetCall(c, [calls[c] EXCEPT !.pc = "load"])
    /\ UNCHANGED <<load_calls, received>>

\* get_summarizer: "_summarizer.load_model()" is entered on the object the
\* global names at this moment.
GetLoad(c) ==
    /\ calls[c].pc = "load"
    /\ load_calls' = load_calls + 1
    /\ SetCall(c, [calls[c] EXCEPT !.pc = "loading", !.self = _summarizer])
    /\ UNCHANGED <<_summarizer, instances, received>>

\* load_model assigns self.model and returns, into get_summarizer or into
\* MeetingSummarizer.summarize_meeting.
LoadDone(c) ==
    /\ calls[c].pc \in {"loading", "reloading"}
    /\ instances' = [instances EXCEPT ![calls[c].self].loaded = TRUE]
    /\ SetCall(c, [calls[c] EXCEPT !.pc = IF calls[c].pc = "loading"
                                          THEN "return" ELSE "idle",
                                   !.self = None])
    /\ UNCHANGED <<_summarizer, load_calls, received>>

\* get_summarizer: "return _summarizer", assigned to summarize_meeting's
\* local.
GetReturn(c) ==
    /\ calls[c].pc = "return"
    /\ SetCall(c, [calls[c] EXCEPT !.pc = "summarize",
                                   !.summarizer = _summarizer])
    /\ UNCHANGED <<_summarizer, instances, load_calls, received>>

\* summarizer.summarize_meeting(transcript_path): "if self.model is None:
\* self.load_model()", then the extraction, which changes nothing here.
Summarize(c) ==
    /\ calls[c].pc = "summarize"
    /\ received' = received \cup {calls[c].summarizer}
    /\ IF instances[calls[c].summarizer].loaded
       THEN /\ SetCall(c, [calls[c] EXCEPT !.pc = "idle"])
            /\ UNCHANGED load_calls
       ELSE /\ load_calls' = load_calls + 1
            /\ SetCall(c, [calls[c] EXCEPT !.pc = "reloading",
                                           !.self = calls[c].summarizer])
    /\ UNCHANGED <<_summarizer, instances>>

SummarizerNext ==
    \/ \E c \in Callers : CallBegin(c)
    \/ \E c \in Callers : GetTest(c)
    \/ \E c \in Callers : GetConstruct(c)
    \/ \E c \in Callers : GetLoad(c)
    \/ \E c \in Callers : LoadDone(c)
    \/ \E c \in Callers : GetReturn(c)
    \/ \E c \in Callers : Summarize(c)

SummarizerSpec == Init /\ [][SummarizerNext]_vars

(* ---------------------------------------------------------------------- *)
(* Vocabulary of the properties                                           *)
(* ---------------------------------------------------------------------- *)

SignalEvents == {"webrtc-offer", "webrtc-answer", "webrtc-ice-candidate"}

\* The participant list of a room id, empty for an id the table lacks.
ParticipantsOf(rooms, room_id) ==
    IF room_id \in DOMAIN rooms THEN rooms[room_id].participants ELSE << >>

\* The userIds on a participant list.
UserIdsOf(participants) ==
    { participants[i].userId : i \in 1..Len(participants) }

\* This step ran the handler of the named event for connection sid.
Ran(name, sid, data) ==
    /\ handled' = handled + 1
    /\ last_event' = [name |-> name, sid |-> sid, data |-> data]

\* The room ids whose broadcast group holds connection sid.
RoomsOfConnection(sid) == { r \in RoomIds : sid \in sio_rooms[r] }

\* targetId is present in a room of the sender: as a connection subscribed
\* to it, or as the userId of one of its participants.
PresentWith(sid, target_id) ==
    \E r \in RoomsOfConnection(sid) :
        \/ target_id \in sio_rooms[r]
        \/ target_id \in UserIdsOf(ParticipantsOf(active_rooms, r))

(* ---------------------------------------------------------------------- *)
(* Properties                                                             *)
(* ---------------------------------------------------------------------- *)

\* C1: every room's participant list holds at most one entry per userId, so
\* its length (the participantCount reported) is the number of distinct
\* userIds in the room, also after repeated joins with the same userId.
C1_OneEntryPerUserId ==
    \A r \in DOMAIN active_rooms :
        Len(active_rooms[r].participants) =
            Cardinality(UserIdsOf(active_rooms[r].participants))

\* C3: when the transport closes a connection that has just joined a room
\* holding N participants (and sent no leave-room), the room's count becomes
\* N-1 and the userId it joined with is on the list no more.
C3_DisconnectAppliesLeave ==
    [][ \A sid \in Sids :
          ( /\ last_event.name = "join-room"
            /\ last_event.sid = sid
            /\ sid \in Connected
            /\ sid \notin Connected' )
          => LET r == last_event.data.roomId
             IN  /\ Len(active_rooms'[r].participants) =
                        Len(active_rooms[r].participants) - 1
                 /\ last_event.data.userId \notin
                        UserIdsOf(active_rooms'[r].participants) ]_vars

\* C4: a join-room whose roomId is not in the room table succeeds: afterwards
\* the table holds the room with exactly one participant, the joiner, with
\* the joiner's userName as host and recording false.
C4_JoinUnknownRoomCreatesIt ==
    [][ \A sid \in Sids : \A data \in JoinData(sid) :
          ( Ran("join-room", sid, data) /\ data.roomId \notin DOMAIN active_rooms )
          => /\ data.roomId \in DOMAIN active_rooms'
             /\ active_rooms'[data.roomId].participants =
                    << Participant(data.userId, data.userName) >>
             /\ active_rooms'[data.roomId].host = data.userName
             /\ active_rooms'[data.roomId].recording = FALSE ]_vars

\* C4 witness: the first event of a run was a join-room, which therefore
\* named a room id the table did not hold, and the room is there.
C4_Witness ==
    /\ handled = 1
    /\ last_event.name = "join-room"
    /\ last_event.data.roomId \in DOMAIN active_rooms

C6_UserJoinedToOthers ==
    [][ \A sid \in Sids : \A data \in JoinData(sid) :
          Ran("join-room", sid, data)
          => LET joined == emitted'[1]
             IN  /\ joined.event = "user-joined"
                 /\ joined.to = sio_rooms'[data.roomId] \ {sid}
                 /\ sid \notin joined.to
                 /\ joined.payload.userId = data.userId
                 /\ joined.payload.participantCount =
                        Len(active_rooms'[data.roomId].participants)
                 /\ joined.payload.participantCount =
                        Len(ParticipantsOf(active_rooms, data.roomId)) + 1 ]_vars

\* C6 witness: a third connection joined a room two others are in; both got
\* user-joined with participantCount 3.
C6_Witness ==
    /\ last_event.name = "join-room"
    /\ emitted[1].event = "user-joined"
    /\ Cardinality(emitted[1].to) = 2
    /\ emitted[1].payload.participantCount = 3

\* C7: on every leave-room for a room in the table a user-left event with
\* the leaving userId and the count after the removal goes to every
\* connection that remains in the room, and not to the sender.
C7_UserLeftToRemaining ==
    [][ \A sid \in Sids, data \in LeaveData :
          ( Ran("leave-room", sid, data) /\ data.roomId \in DOMAIN active_rooms )
          => LET left == emitted'[1]
             IN  /\ Len(emitted') = 1
                 /\ left.event = "user-left"
                 /\ left.to = sio_rooms'[data.roomId]
                 /\ left.to = sio_rooms[data.roomId] \ {sid}
                 /\ sid \notin left.to
                 /\ left.payload.userId = data.userId
                 /\ left.payload.participantCount =
                        Len(active_rooms'[data.roomId].participants)
                 /\ data.userId \notin
                        UserIdsOf(active_rooms'[data.roomId].participants) ]_vars

\* C7 witness: one of three connections in a room left it; the two that
\* remain got user-left with participantCount 2.
C7_Witness ==
    /\ last_event.name = "leave-room"
    /\ Len(emitted) = 1
    /\ Cardinality(emitted[1].to) = 2
    /\ last_event.sid \notin emitted[1].to
    /\ emitted[1].payload.participantCount = 2

\* C8: a signaling message from a connection that is in a room, whose
\* targetId is not present in the sender's room (another connection's id or
\* a room id among them), is delivered to no connection at all.
C8_AbsentTargetNoDelivery ==
    ( /\ last_event.name \in SignalEvents
      /\ RoomsOfConnection(last_event.sid) # {}
      /\ last_event.data.targetId # last_event.sid
      /\ ~ PresentWith(last_event.sid, last_event.data.targetId) )
    => \A i \in 1..Len(emitted) : emitted[i].to = {}

\* C9: a signaling message from a connection that is in a room is delivered
\* to at most one connection, the one named by targetId, and only if that
\* one is in a room with the sender.
C9_RelayToTargetOnly ==
    ( /\ last_event.name \in SignalEvents
      /\ RoomsOfConnection(last_event.sid) # {} )
    => \A i \in 1..Len(emitted) :
          /\ Cardinality(emitted[i].to) <= 1
          /\ emitted[i].to \subseteq {last_event.data.targetId}
          /\ emitted[i].to # {} =>
                 \E r \in RoomsOfConnection(last_event.sid) :
                     last_event.data.targetId \in sio_rooms[r]

\* C10: two consecutive start-recording events for a room in the table leave
\* recording true and emit exactly two recording-started events to the
\* room; two consecutive stop-recording events leave it false and emit
\* exactly two recording-stopped events.
C10_RecordingTwice ==
    \A name \in {"start-recording", "stop-recording"} :
        ( /\ last_event.name = name
          /\ prev.same
          /\ last_event.data.roomId \in DOMAIN active_rooms )
        => LET r == last_event.data.roomId
               both == prev.emitted \o emitted
               event == IF name = "start-recording"
                        THEN "recording-started" ELSE "recording-stopped"
           IN  /\ active_rooms[r].recording = (name = "start-recording")
               /\ Len(both) = 2
               /\ \A i \in 1..2 : both[i].event = event /\ both[i].room = r
               /\ emitted[1].to = sio_rooms[r]

\* C10 witness: the second of two consecutive start-recording events for a
\* live room with a connection in it.
C10_Witness ==
    /\ last_event.name = "start-recording"
    /\ prev.same
    /\ last_event.data.roomId \in DOMAIN active_rooms
    /\ Len(emitted) = 1
    /\ emitted[1].to # {}

\* The participants on a list, as a set.
ParticipantSet(participants) ==
    { participants[i] : i \in 1..Len(participants) }

\* C2: no update to a room's participant set is lost under any interleaving
\* of concurrently running join-room and leave-room handlers: once all
\* handlers have returned, every room's participant set is the one that
\* handling the same events in some sequential order produces.
C2_NoLostUpdate ==
    ( \A sid \in Sids : threads[sid] = Idle )
    => \E order \in Permutations(1..Len(invoked)) :
           \A r \in RoomIds :
               ParticipantSet(ParticipantsOf(active_rooms, r)) =
               ParticipantSet(ParticipantsOf(
                   Serial(invoked, order, Len(invoked)), r))

\* C11: a join-room for room B from a connection that joined another room A
\* and has not left it is rejected: the connection stays a member of A only
\* and B's participant list is unchanged.
C11_SecondRoomRejected ==
    [][ \A sid \in Sids : \A data \in JoinData(sid) :
          ( /\ Ran("join-room", sid, data)
            /\ RoomsOfConnection(sid) \ {data.roomId} # {} )
          => /\ sid \notin sio_rooms'[data.roomId]
             /\ ParticipantsOf(active_rooms', data.roomId) =
                    ParticipantsOf(active_rooms, data.roomId) ]_vars

\* C12: after any run of join-room and leave-room events without
\* disconnects, every room whose list holds no userId twice has as many
\* participant entries as connections subscribed to its broadcast group.
C12_EntriesMatchConnections ==
    \A r \in DOMAIN active_rooms :
        Len(active_rooms[r].participants) =
            Cardinality(UserIdsOf(active_rooms[r].participants))
        => Len(active_rooms[r].participants) = Cardinality(sio_rooms[r])

\* The requests served in a step: a request ran when the budget counter
\* moved and last_event names it.
Served(name, data) ==
    /\ handled' = handled + 1
    /\ last_event' = [name |-> name, sid |-> None, data |-> data]

\* C13: a successful create-room returns a roomId under which the live room
\* table then holds a room with no participants, recording off, the
\* request's hostName as host and the given title; the document written to
\* the store has status active and no participants.
C13_CreateInstallsFreshRoom ==
    [][ \A data \in CreateData :
          ( /\ Served("create-room", data)
            /\ response'.status = 201 )
          => LET rid == response'.roomId
                 doc == rooms_db'[Len(rooms_db')]
             IN  /\ rid \in DOMAIN active_rooms'
                 /\ active_rooms'[rid].participants = << >>
                 /\ active_rooms'[rid].recording = FALSE
                 /\ "hostName" \in DOMAIN data
                      => active_rooms'[rid].host = data.hostName
                 /\ "title" \in DOMAIN data
                      => active_rooms'[rid].title = data.title
                 /\ Len(rooms_db') = Len(rooms_db) + 1
                 /\ doc.roomId = rid
                 /\ doc.status = "active"
                 /\ doc.participants = << >> ]_vars

\* A create-room with hostName and title succeeded.
C13_Witness ==
    /\ last_event.name = "create-room"
    /\ DOMAIN last_event.data = {"hostName", "title"}
    /\ response.status = 201
    /\ response.roomId \in DOMAIN active_rooms

\* C14: when the store write of a create-room fails, the request answers
\* with an error and the live room table is what it was: no entry is added
\* and no existing room changes.
C14_FailedWriteLeavesTable ==
    [][ \A data \in CreateData :
          ( /\ Served("create-room", data)
            /\ rooms_db' = rooms_db )
          => /\ response'.status = 500
             /\ active_rooms' = active_rooms ]_vars

\* A create-room failed on the store write while a room was live.
C14_Witness ==
    /\ last_event.name = "create-room"
    /\ response.status = 500
    /\ DOMAIN active_rooms # {}
    /\ DOMAIN active_rooms # RoomIds

\* C15: create-room never returns an id that the live room table or the
\* store already holds, so it never replaces a live room.
C15_CreatedIdIsFresh ==
    [][ \A data \in CreateData :
          ( /\ Served("create-room", data)
            /\ response'.status = 201 )
          => /\ response'.roomId \notin DOMAIN active_rooms
             /\ Matching(rooms_db, response'.roomId) = {} ]_vars

\* C16: fetch-room answers NotFound only for an id unknown to both the live
\* room table and the store.
C16_NotFoundOnlyIfUnknown ==
    [][ \A room_id \in RoomIds :
          ( /\ Served("get-room", [roomId |-> room_id])
            /\ response'.status = 404 )
          => /\ room_id \notin DOMAIN active_rooms
             /\ Matching(rooms_db, room_id) = {} ]_vars

\* C17: for an id found in the store, fetch-room returns the stored
\* metadata with participantCount equal to the length of the room's live
\* participant list, or 0 when the table has no entry for the id, and
\* changes neither the table nor the store.
C17_FetchMergesLiveCount ==
    [][ \A room_id \in RoomIds :
          ( /\ Served("get-room", [roomId |-> room_id])
            /\ response'.status = 200 )
          => LET room == response'.room
             IN  /\ \E i \in Matching(rooms_db, room_id) :
                        \A k \in DOMAIN rooms_db[i] : room[k] = rooms_db[i][k]
                 /\ DOMAIN room =
                        {"roomId", "title", "hostName", "status",
                         "participants", "participantCount"}
                 /\ room.participantCount =
                        IF room_id \in DOMAIN active_rooms
                        THEN Len(active_rooms[room_id].participants)
                        ELSE 0
                 /\ active_rooms' = active_rooms
                 /\ rooms_db' = rooms_db ]_vars

\* A fetch-room reported the live count of a room somebody is in.
C17_Witness ==
    /\ last_event.name = "get-room"
    /\ response.status = 200
    /\ response.room.participantCount > 0

\* The participant count an observer of a room is given at this moment.
ExposedCount(rooms, room_id) ==
    IF room_id \in DOMAIN rooms THEN Len(rooms[room_id].participants) ELSE 0

\* C18: the participant count a room exposes never goes down in a step
\* unless that step applied a leave-room for the room.
C18_CountDropsOnlyOnLeave ==
    [][ \A r \in RoomIds :
          ExposedCount(active_rooms', r) < ExposedCount(active_rooms, r)
          => \E sid \in Sids, data \in LeaveData :
                /\ data.roomId = r
                /\ Ran("leave-room", sid, data) ]_vars

\* The key under which each signaling event carries its negotiation blob.
BlobField ==
    [e \in SignalEvents |->
        CASE e = "webrtc-offer" -> "offer"
          [] e = "webrtc-answer" -> "answer"
          [] OTHER -> "candidate"]

\* C19: a relayed signaling message is delivered as one event of the same
\* name whose content is the submitted negotiation blob under its key and
\* the senderId of the message, and nothing else; the target receives it.
C19_RelayedUnmodified ==
    [][ \A sid \in Sids, name \in SignalEvents :
        \A data \in SignalData(BlobField[name]) :
          Ran(name, sid, data)
          => /\ Len(emitted') = 1
             /\ emitted'[1].event = name
             /\ DOMAIN emitted'[1].payload = {BlobField[name], "senderId"}
             /\ emitted'[1].payload[BlobField[name]] = data[BlobField[name]]
             /\ emitted'[1].payload.senderId = data.senderId
             /\ data.targetId \in Connected
                  => data.targetId \in emitted'[1].to ]_vars

\* An answer carrying a senderId other than the sending connection's id
\* reached another connection.
C19_Witness ==
    /\ last_event.name = "webrtc-answer"
    /\ last_event.data.senderId # last_event.sid
    /\ last_event.data.targetId # last_event.sid
    /\ last_event.data.targetId \in emitted[1].to

\* C20: a join-room message without roomId is ignored: the live room table
\* is unchanged and neither user-joined nor room-users is emitted.
C20_JoinWithoutRoomIdIgnored ==
    [][ \A sid \in Sids : \A data \in AnyJoinData(sid) :
          ( /\ Ran("join-room", sid, data)
            /\ "roomId" \notin DOMAIN data )
          => /\ active_rooms' = active_rooms
             /\ emitted' = << >> ]_vars

\* C21: a signaling message without targetId is not forwarded: no
\* connection, the sender's own included, receives an event for it.
C21_UntargetedNotForwarded ==
    [][ \A sid \in Sids, name \in SignalEvents :
        \A data \in AnySignalData(BlobField[name]) :
          ( /\ Ran(name, sid, data)
            /\ "targetId" \notin DOMAIN data )
          => \A i \in 1..Len(emitted') : emitted'[i].to = {} ]_vars

\* C22: handling a webrtc-offer, webrtc-answer or webrtc-ice-candidate
\* message leaves the whole live room table as it was, whatever the message
\* names as target and sender.
C22_RelayLeavesTable ==
    [][ ( /\ handled' = handled + 1
          /\ last_event'.name \in SignalEvents )
        => active_rooms' = active_rooms ]_vars

\* A signaling message addressed to a room id went through while a room
\* with a participant was live.
C22_Witness ==
    /\ last_event.name \in SignalEvents
    /\ last_event.data.targetId \in RoomIds
    /\ \E r \in DOMAIN active_rooms : Len(active_rooms[r].participants) > 0

\* C23: recording state and membership are independent: a join-room or a
\* leave-room leaves the recording flag of every room already in the table
\* unchanged, also when the last participant leaves, and start-recording and
\* stop-recording leave every participant list unchanged.
C23_RecordingIndependent ==
    [][ \A r \in DOMAIN active_rooms :
          /\ ( /\ handled' = handled + 1
               /\ last_event'.name \in {"join-room", "leave-room"} )
             => /\ r \in DOMAIN active_rooms'
                /\ active_rooms'[r].recording = active_rooms[r].recording
          /\ ( /\ handled' = handled + 1
               /\ last_event'.name \in {"start-recording", "stop-recording"} )
             => /\ r \in DOMAIN active_rooms'
                /\ active_rooms'[r].participants =
                       active_rooms[r].participants ]_vars

\* The last participant left a room that is being recorded.
C23_Witness ==
    /\ last_event.name = "leave-room"
    /\ last_event.data.roomId \in DOMAIN active_rooms
    /\ active_rooms[last_event.data.roomId].recording
    /\ active_rooms[last_event.data.roomId].participants = << >>
    /\ Len(emitted) = 1

\* The entries of a participant list that belong to other userIds.
OthersIn(participants, user_id) ==
    SelectSeq(participants, LAMBDA p : p.userId # user_id)

\* C24: a leave-room for a userId that is not in the room changes no
\* participant list and is no error; a second leave-room for the same userId
\* and room leaves the list the first one left; the entries of all other
\* userIds are kept in either case.
C24_LeaveAbsentIsNoop ==
    [][ \A sid \in Sids, data \in LeaveData :
          Ran("leave-room", sid, data)
          => LET r == data.roomId
                 before == ParticipantsOf(active_rooms, r)
                 after  == ParticipantsOf(active_rooms', r)
             IN  /\ DOMAIN active_rooms' = DOMAIN active_rooms
                 /\ data.userId \notin UserIdsOf(before)
                      => active_rooms' = active_rooms
                 /\ ( /\ last_event.name = "leave-room"
                      /\ last_event.data = data )
                      => after = before
                 /\ OthersIn(after, data.userId) =
                        OthersIn(before, data.userId) ]_vars

\* The same leave-room was applied twice to a room that keeps another
\* user's entry.
C24_Witness ==
    /\ last_event.name = "leave-room"
    /\ prev.same
    /\ last_event.data.roomId \in DOMAIN active_rooms
    /\ active_rooms[last_event.data.roomId].participants # << >>

\* C25: the store's room collection is written by create-room only, one
\* document per successful request and never an update: join-room (also one
\* that creates the live room), leave-room, the recording events, the
\* signaling relays and fetch-room leave the collection as it was.
C25_StoreWrittenOnlyByCreate ==
    [][ /\ ( /\ handled' = handled + 1
             /\ last_event'.name # "create-room" )
           => rooms_db' = rooms_db
        /\ ( /\ handled' = handled + 1
             /\ last_event'.name = "create-room" )
           => \/ rooms_db' = rooms_db
              \/ /\ Len(rooms_db') = Len(rooms_db) + 1
                 /\ SubSeq(rooms_db', 1, Len(rooms_db)) = rooms_db ]_vars

\* A join-room created a live room the store has no document for, while the
\* store holds a document of another room.
C25_Witness ==
    /\ last_event.name = "join-room"
    /\ rooms_db # << >>
    /\ last_event.data.roomId \in DOMAIN active_rooms
    /\ Len(active_rooms[last_event.data.roomId].participants) = 1
    /\ Matching(rooms_db, last_event.data.roomId) = {}

\* C26: a room is never torn down: a room id in the live room table is
\* still in it after every step, also after its last participant left, and
\* no step moves a room document away from status active.
C26_RoomNeverTornDown ==
    [][ /\ DOMAIN active_rooms \subseteq DOMAIN active_rooms'
        /\ \A i \in 1..Len(rooms_db) :
              /\ i <= Len(rooms_db')
              /\ rooms_db'[i].roomId = rooms_db[i].roomId
              /\ rooms_db'[i].status = "active" ]_vars

\* A leave-room left a room created through the API without participants;
\* the room is still live and its document is in the store.
C26_Witness ==
    /\ last_event.name = "leave-room"
    /\ Len(emitted) = 1
    /\ last_event.data.roomId \in DOMAIN active_rooms
    /\ active_rooms[last_event.data.roomId].participants = << >>
    /\ active_rooms[last_event.data.roomId].title = "Standup"
    /\ Matching(rooms_db, last_event.data.roomId) # {}

\* C27: the summarizer is loaded once per process: over any calls of
\* summarize_meeting, concurrent ones included, at most one MeetingSummarizer
\* is built, load_model is invoked at most once, and all calls work with the
\* same instance.
C27_SummarizerLoadedOnce ==
    /\ Cardinality(DOMAIN instances) <= 1
    /\ load_calls <= 1
    /\ Cardinality(received) <= 1

\* The events that name one room and act on it.
RoomEvents == {"join-room", "leave-room", "start-recording", "stop-recording"}

\* The rooms of the table whose broadcast group holds connection sid.
InRooms(sid) ==
    { r \in DOMAIN active_rooms : sid \in Members(sio_rooms, r) }

\* C28: rooms are isolated: a join-room, leave-room, start-recording or
\* stop-recording for room A leaves the entry of every other room B as it
\* was and delivers no event to a connection that is in rooms other than A
\* only.
C28_RoomsIsolated ==
    [][ ( /\ handled' = handled + 1
          /\ last_event'.name \in RoomEvents )
        => LET A == last_event'.data.roomId
           IN  /\ \A B \in DOMAIN active_rooms \ {A} :
                     /\ B \in DOMAIN active_rooms'
                     /\ active_rooms'[B] = active_rooms[B]
               /\ \A conn \in Connected \ {last_event'.sid} :
                     ( /\ InRooms(conn) # {}
                       /\ A \notin InRooms(conn) )
                     => \A i \in 1..Len(emitted') : conn \notin emitted'[i].to
         ]_vars

\* C29: the host and the title of a room are fixed when its live entry is
\* created and never change afterwards: every step leaves them as they were
\* for every room in the table.
C29_HostAndTitleFixed ==
    [][ \A r \in DOMAIN active_rooms :
          /\ r \in DOMAIN active_rooms'
          /\ active_rooms'[r].host = active_rooms[r].host
          /\ active_rooms'[r].title = active_rooms[r].title ]_vars

\* C30: a leave-room, start-recording or stop-recording that names a room id
\* the live room table does not hold leaves the table unchanged (the room is
\* not created) and emits nothing.
C30_UnknownRoomUntouched ==
    [][ ( /\ handled' = handled + 1
          /\ last_event'.name \in
                {"leave-room", "start-recording", "stop-recording"}
          /\ last_event'.data.roomId \notin DOMAIN active_rooms )
        => /\ active_rooms' = active_rooms
           /\ emitted' = << >> ]_vars

\* A start-recording named a room id the table does not hold while another
\* room was live.
C30_Witness ==
    /\ last_event.name = "start-recording"
    /\ last_event.data.roomId \notin DOMAIN active_rooms
    /\ DOMAIN active_rooms # {}
    /\ emitted = << >>

====
